---- MODULE Spec2Model ----
(***************************************************************************)
(* HttpCacheService (src/angular/services/http-cache/http-cache.service.ts) *)
(* as a state machine: the store `_cache`, the array the caller supplied as *)
(* preload, and the operations find / has / insert / bust.                  *)
(*                                                                          *)
(* Encoding of JavaScript values                                            *)
(*   - an object reference is a positive number `ref`; 0 is null;           *)
(*   - a url is a string, the token Undefined standing for `undefined`;     *)
(*   - params are [kind, pairs]: kind "undefined" (no params), "raw" (a     *)
(*     RawParams object, one value per name) or "http" (an HttpParams       *)
(*     container, a list of values per name); pairs is the sequence of      *)
(*     <<name, <<values>>>> in key order;                                   *)
(*   - a raw value is "" or a non-empty string, or one of the tokens        *)
(*     NullV, UndefV, EmptyObjV for null, undefined and {}.                 *)
(***************************************************************************)
EXTENDS Integers, Sequences, FiniteSets, TLC

VARIABLES cache,      \* this._cache: sequence of cache items
          preload,    \* the array object the caller passed as preloadedCache
          aliased,    \* TRUE while this._cache is that same array object
          inserted,   \* number of items created by insert so far
          q,          \* arguments of the lookup call (lookup specification)
          out,        \* what that call returned (lookup specification)
          callers     \* the callers racing on one key (race specification)

vars == <<cache, preload, aliased, inserted, q, out, callers>>

----------------------------------------------------------------------------
(* Bounds *)
MaxPreload == 2
MaxInserts == 2

----------------------------------------------------------------------------
(* Values *)
Undefined == "<undefined>"
NullV     == "<null>"
UndefV    == "<undefined-value>"
EmptyObjV == "<{}>"

\* HttpEventType.Response, the type of a complete HttpResponse event
Response == "Response"

NoParams == [kind |-> "undefined", pairs |-> <<>>]
Raw(ps)  == [kind |-> "raw", pairs |-> ps]
Http(ps) == [kind |-> "http", pairs |-> ps]

Req(m, u, p) == [method |-> m, url |-> u, params |-> p]

\* the three call shapes of find / has / bust
NoRequest         == Req(Undefined, Undefined, NoParams)
ByRequest(r)      == [shape |-> "request", request |-> r,
                      method |-> Undefined, url |-> Undefined, params |-> NoParams]
ByTriple(m, u, p) == [shape |-> "triple", request |-> NoRequest,
                      method |-> m, url |-> u, params |-> p]
NoArgs            == [shape |-> "none", request |-> NoRequest,
                      method |-> Undefined, url |-> Undefined, params |-> NoParams]

Null == [ref |-> 0, request |-> Req("", "", NoParams), response |-> [type |-> "", status |-> 0]]

\* the results of the calls: the item find returned and the answer of has,
\* and the answer of hasParams
NotCalled         == [called |-> FALSE, item |-> Null, has |-> FALSE,
                      hpCalled |-> FALSE, hasParams |-> FALSE]
Returned(item, b) == [NotCalled EXCEPT !.called = TRUE, !.item = item, !.has = b]

\* no caller is racing
NoCallers == <<>>

----------------------------------------------------------------------------
(* Helpers on sequences *)
RECURSIVE Names(_)
Names(ps) == IF ps = <<>> THEN {} ELSE {Head(ps)[1]} \cup Names(Tail(ps))

Range(s) == {s[i] : i \in DOMAIN s}

RECURSIVE SelectSeqBy(_, _)
\* Array.prototype.filter((cacheItem) => cacheItem !== item)
SelectSeqBy(s, r) ==
  IF s = <<>> THEN <<>>
  ELSE IF Head(s).ref # r THEN <<Head(s)>> \o SelectSeqBy(Tail(s), r)
       ELSE SelectSeqBy(Tail(s), r)

----------------------------------------------------------------------------
(* Key normalizer *)

\* HttpParams.get(key): the first value stored under the key, null if none
HttpParamsGet(vals) == IF vals = <<>> THEN NullV ELSE vals[1]

\* the normalizer reading the last value of a key instead of the first
convertUsingLastValue(params) ==
  IF params.kind = "http"
  THEN [kind  |-> "array",
        pairs |-> [i \in 1..Len(params.pairs) |->
                     <<params.pairs[i][1], <<params.pairs[i][2][Len(params.pairs[i][2])]>> >>]]
  ELSE params

\* convertHttpParamsToLooseValue: an HttpParams container becomes the array
\* keys.map((key) => [key, params.get(key)]); anything else is returned as is
convertHttpParamsToLooseValue(params) ==
  IF params.kind = "http"
  THEN [kind  |-> "array",
        pairs |-> [i \in 1..Len(params.pairs) |->
                     <<params.pairs[i][1], <<HttpParamsGet(params.pairs[i][2])>> >>]]
  ELSE params

\* hasParams: params === undefined || params.keys().length > 0
hasParams(params) == params.kind = "undefined" \/ Len(params.pairs) > 0

----------------------------------------------------------------------------
(* Fuzzy equality comparer: COMPARERS.areBasicallyEqual of library/comparers *)

\* step 1: undefined, null, the empty string and the empty object are "empty"
IsEmptyValue(v) == v \in {UndefV, NullV, "", EmptyObjV}

RECURSIVE LooseLookup(_, _)
\* step 3: the value of a name in a loose value, absent -> empty
LooseLookup(ps, name) ==
  IF ps = <<>> THEN UndefV
  ELSE IF Head(ps)[1] = name THEN Head(ps)[2][1]
       ELSE LooseLookup(Tail(ps), name)

\* step 3: both empty, or both non-empty and equal
ValuesBasicallyEqual(v, w) ==
  \/ IsEmptyValue(v) /\ IsEmptyValue(w)
  \/ ~IsEmptyValue(v) /\ ~IsEmptyValue(w) /\ v = w

\* steps 2, 4 and 5: every name of the union compares equal
areBasicallyEqual(a, b) ==
  \A name \in Names(a.pairs) \cup Names(b.pairs) :
    ValuesBasicallyEqual(LooseLookup(a.pairs, name), LooseLookup(b.pairs, name))

\* comparison over the names of the first parameter set only
paramsOfFirstAreEqual(params1, params2) ==
  LET l1 == convertHttpParamsToLooseValue(params1).pairs
      l2 == convertHttpParamsToLooseValue(params2).pairs
  IN  \A name \in Names(l1) : ValuesBasicallyEqual(LooseLookup(l1, name), LooseLookup(l2, name))

\* comparison pair by pair, the i-th name and value against the i-th
paramsAreEqualByPosition(params1, params2) ==
  LET l1 == convertHttpParamsToLooseValue(params1).pairs
      l2 == convertHttpParamsToLooseValue(params2).pairs
  IN  /\ Len(l1) = Len(l2)
      /\ \A i \in DOMAIN l1 : l1[i][1] = l2[i][1] /\ ValuesBasicallyEqual(l1[i][2][1], l2[i][2][1])

\* comparison of the normalized params by strict equality
paramsAreStrictlyEqual(params1, params2) ==
  convertHttpParamsToLooseValue(params1).pairs = convertHttpParamsToLooseValue(params2).pairs

paramsAreBasicallyEqual(params1, params2) ==
  LET looseParams1 == convertHttpParamsToLooseValue(params1)
      looseParams2 == convertHttpParamsToLooseValue(params2)
  IN  areBasicallyEqual(looseParams1, looseParams2)

----------------------------------------------------------------------------
(* Cache store: lookup *)

\* the callback of this.cache.find in find
ItemMatches(item, method, url, params) ==
  IF item.request.method # method \/ item.request.url # url
  THEN FALSE
  ELSE paramsAreBasicallyEqual(params, item.request.params)

RECURSIVE ArrayFind(_, _, _, _)
\* Array.prototype.find: the first element the callback accepts, else undefined
\* (item ?? null turns it into null)
ArrayFind(c, method, url, params) ==
  IF c = <<>> THEN Null
  ELSE IF ItemMatches(Head(c), method, url, params) THEN Head(c)
       ELSE ArrayFind(Tail(c), method, url, params)

\* find that scans from the end: returns the last match
findLast(c, a) ==
  LET Hits == { i \in DOMAIN c : ItemMatches(c[i], IF a.shape = "request" THEN a.request.method ELSE a.method,
                                              IF a.shape = "request" THEN a.request.url ELSE a.url,
                                              IF a.shape = "request" THEN a.request.params ELSE a.params) }
  IN  IF (IF a.shape = "request" THEN a.request.url ELSE a.url) = Undefined \/ Hits = {}
      THEN Null
      ELSE c[CHOOSE i \in Hits : \A j \in Hits : j <= i]

find(c, a) ==
  LET isRequest == a.shape = "request"
      method    == IF isRequest THEN a.request.method ELSE a.method
      url       == IF isRequest THEN a.request.url ELSE a.url
      params    == IF isRequest THEN a.request.params ELSE a.params
  IN  IF url = Undefined THEN Null
      ELSE ArrayFind(c, method, url, params)

\* has with the early return for an undefined url inverted
hasTrueOnUndefinedUrl(c, a) ==
  IF a.shape = "triple"
  THEN IF a.url = Undefined THEN TRUE ELSE find(c, a) # Null
  ELSE find(c, a) # Null

\* has that tests the request-shape result against undefined instead of null
hasNotUndefined(c, a) ==
  IF a.shape = "triple"
  THEN IF a.url = Undefined THEN FALSE ELSE find(c, a) # Null
  ELSE TRUE

has(c, a) ==
  IF a.shape = "triple"
  THEN IF a.url = Undefined THEN FALSE ELSE find(c, a) # Null
  ELSE find(c, a) # Null

----------------------------------------------------------------------------
(* Cache store: insert and bust *)

createHttpCacheItem(ref, request, response) ==
  [ref |-> ref, request |-> request, response |-> response]

\* the reference of the object the next createHttpCacheItem call allocates
FreshRef == MaxPreload + inserted + 1

\* insert that takes every event from the response header on
insertFromHeader(c, ref, request, response) ==
  IF response.type \notin {"ResponseHeader", Response} THEN c
  ELSE Append(c, createHttpCacheItem(ref, request, response))

\* insert into a store of limited capacity: the oldest item is evicted
insertEvicting(c, ref, request, response) ==
  IF response.type # Response THEN c
  ELSE IF Len(c) >= 2
       THEN Append(Tail(c), createHttpCacheItem(ref, request, response))
       ELSE Append(c, createHttpCacheItem(ref, request, response))

\* insert that skips a request the store already holds
insertIfAbsent(c, ref, request, response) ==
  IF response.type # Response \/ find(c, ByRequest(request)) # Null THEN c
  ELSE Append(c, createHttpCacheItem(ref, request, response))

insert(c, ref, request, response) ==
  IF response.type # Response THEN c
  ELSE Append(c, createHttpCacheItem(ref, request, response))

\* TRUE when bust assigns a new array to this._cache
bustReassigns(c, a) ==
  IF a.shape = "none" THEN TRUE ELSE find(c, a) # Null

\* bust that also clears the store when the url is undefined
bustClearsOnUndefinedUrl(c, a) ==
  IF a.shape = "none" \/ (a.shape = "triple" /\ a.url = Undefined) THEN <<>>
  ELSE LET item == find(c, a)
       IN  IF item = Null THEN c ELSE SelectSeqBy(c, item.ref)

\* bust() that drops only the newest item
bustPops(c, a) ==
  IF a.shape = "none" THEN SubSeq(c, 1, Len(c) - 1)
  ELSE LET item == find(c, a)
       IN  IF item = Null THEN c ELSE SelectSeqBy(c, item.ref)

bust(c, a) ==
  IF a.shape = "none" THEN <<>>
  ELSE LET item == find(c, a)
       IN  IF item = Null THEN c ELSE SelectSeqBy(c, item.ref)

----------------------------------------------------------------------------
(* Inputs of the store specification *)

Ok200 == [type |-> Response, status |-> 200]

\* requests the interceptor hands to insert: an HttpRequest always carries
\* an HttpParams container
InsertRequests ==
  { Req("GET", "/users", Http(<<>>)),
    Req("GET", "/users", Http(<< <<"foo", <<"bar">> >> >>)) }

\* HttpEvent values: two partial events, a successful and a failed HttpResponse
Events ==
  { [type |-> "ResponseHeader",   status |-> 200],
    [type |-> "DownloadProgress", status |-> 0],
    Ok200,
    [type |-> Response,         status |-> 500] }

\* serialized items a caller may preload: requests with raw params or none
PreloadRequests ==
  { Req("GET", "/users", Raw(<< <<"foo", <<"">> >> >>)),
    Req("get", "/items", NoParams) }

\* call arguments of find / has / bust(descriptor): the request shape, and
\* the triple shape with raw params, an HttpParams container, no params,
\* another method, another url and an undefined url
Descriptors ==
  { ByRequest(r) : r \in InsertRequests } \cup
  { ByTriple("GET", "/users", NoParams),
    ByTriple("GET", "/users", Raw(<< <<"foo", <<"bar">> >> >>)),
    ByTriple("GET", "/users", Http(<< <<"foo", <<"baz">> >> >>)),
    ByTriple("get", "/users", NoParams),
    ByTriple("get", "/items", Raw(<< <<"foo", <<"">> >> >>)),
    ByTriple("GET", "/items", NoParams),
    ByTriple("GET", Undefined, NoParams) }

\* preload arrays: n items; objs[i] is the position of the first occurrence
\* of the object at position i (the same object may be listed twice)
PreloadArrays ==
  UNION { { [i \in 1..n |-> createHttpCacheItem(objs[i], reqs[objs[i]], Ok200)] :
              reqs \in [1..n -> PreloadRequests],
              objs \in { g \in [1..n -> 1..n] : \A i \in 1..n : g[i] <= i /\ g[g[i]] = g[i] } } :
          n \in 0..MaxPreload }

\* the arguments of provideHttpClientWithCache after the settings: the
\* preload array first, or a feature (not an array) and no preload
ArrayArg(array) == [isArray |-> TRUE, array |-> array]
FeatureArg      == [isArray |-> FALSE, array |-> <<>>]

ProviderArgs == { <<ArrayArg(array)>> : array \in PreloadArrays } \cup { <<FeatureArg>> }

\* getPreloadedCache: args[0] when it is an array, else []
getPreloadedCache(args) ==
  IF Len(args) > 0 /\ args[1].isArray THEN args[1].array ELSE <<>>

----------------------------------------------------------------------------
(* The store specification *)

\* initialize that keeps one position per object of the preload
RECURSIVE DistinctObjects(_, _)
DistinctObjects(c, seen) ==
  IF c = <<>> THEN <<>>
  ELSE IF Head(c).ref \in seen THEN DistinctObjects(Tail(c), seen)
       ELSE <<Head(c)>> \o DistinctObjects(Tail(c), seen \cup {Head(c).ref})

initializeDistinct(c) == DistinctObjects(c, {})

\* initialize(cache): this._cache = cache
initialize(c) == c

\* provideHttpClientWithCache provides PRELOADED_HTTP_CACHE, and the
\* constructor hands it to initialize
Init ==
  /\ preload \in { getPreloadedCache(args) : args \in ProviderArgs }
  /\ cache = initialize(preload)
  /\ aliased = TRUE
  /\ inserted = 0
  /\ q = NoArgs
  /\ out = NotCalled
  /\ callers = NoCallers

\* find that moves the item it hits to the front of the store
FindMoveToFront(a) ==
  /\ cache' = IF find(cache, a) = Null THEN cache
              ELSE <<find(cache, a)>> \o SelectSeqBy(cache, find(cache, a).ref)
  /\ UNCHANGED <<preload, aliased, inserted, q, out, callers>>

\* find and has assign no field: they only return find(cache, a), has(cache, a)
Find(a) ==
  /\ UNCHANGED <<inserted, aliased, cache, preload, q, out, callers>>
  /\ find(cache, a) \in {Null} \cup Range(cache)

Has(a) ==
  /\ UNCHANGED <<inserted, aliased, cache, preload, q, out, callers>>
  /\ has(cache, a) \in BOOLEAN

\* this._cache.push writes into the array object itself, which is the
\* caller's preload array until bust replaces it
Insert(request, response) ==
  /\ response.type = Response => inserted < MaxInserts
  /\ UNCHANGED <<aliased, q, out, callers>>
  /\ inserted' = IF response.type = Response THEN inserted + 1 ELSE inserted
  /\ cache' = insert(cache, FreshRef, request, response)
  /\ preload' = IF aliased THEN cache' ELSE preload

Bust(a) ==
  /\ UNCHANGED <<inserted, preload, q, out, callers>>
  /\ cache' = bust(cache, a)
  /\ aliased' = (aliased /\ ~bustReassigns(cache, a))

Next ==
  \/ \E a \in Descriptors : Find(a)
  \/ \E a \in Descriptors : Has(a)
  \/ \E request \in InsertRequests, response \in Events : Insert(request, response)
  \/ \E a \in Descriptors \cup {NoArgs} : Bust(a)

Spec == Init /\ [][Next]_vars

----------------------------------------------------------------------------
(* The lookup specification: one stored item, one lookup call *)

Foo(v) == << <<"foo", <<v>> >> >>

\* parameter sets: none, empty, foo with each empty value, foo with a value,
\* another name, two names in both orders, a repeated key
LookupParams ==
  { NoParams, Raw(<<>>), Http(<<>>),
    Raw(Foo("")), Raw(Foo(NullV)), Raw(Foo(UndefV)), Raw(Foo(EmptyObjV)),
    Http(Foo("")),
    Raw(Foo("bar")), Http(Foo("bar")), Raw(Foo("baz")),
    Raw(<< <<"a", <<"1">> >> >>),
    Raw(<< <<"a", <<"1">> >>, <<"b", <<"2">> >> >>),
    Raw(<< <<"b", <<"2">> >>, <<"a", <<"1">> >> >>),
    Http(<< <<"a", <<"1">> >>, <<"b", <<"2">> >> >>),
    Http(<< <<"b", <<"2">> >>, <<"a", <<"1">> >> >>),
    Http(<< <<"foo", <<"bar", "baz">> >> >>),
    Http(<< <<"foo", <<"bar", "qux">> >> >>) }

LookupStores ==
  { <<createHttpCacheItem(1, Req("GET", "/users", p), Ok200)>> : p \in LookupParams }

LookupQueries ==
  { ByTriple("GET", "/users", p) : p \in LookupParams } \cup
  { ByRequest(Req("GET", "/users", p)) : p \in { x \in LookupParams : x.kind = "http" } } \cup
  { ByTriple("GET", "/items", NoParams), ByTriple("get", "/users", NoParams) }

LookupInit ==
  /\ cache \in LookupStores
  /\ preload = cache
  /\ aliased = TRUE
  /\ inserted = 0
  /\ q \in LookupQueries
  /\ out = NotCalled
  /\ callers = NoCallers

\* the caller runs find and has with the arguments q
Lookup ==
  /\ ~out.called
  /\ out' = [Returned(find(cache, q), has(cache, q)) EXCEPT
               !.hpCalled = out.hpCalled, !.hasParams = out.hasParams]
  /\ UNCHANGED <<cache, preload, aliased, inserted, q, callers>>

\* the caller runs hasParams with the params of q, an HttpParams container
\* or undefined (its parameter type)
CallHasParams ==
  /\ ~out.hpCalled
  /\ q.shape = "triple"
  /\ q.params.kind \in {"undefined", "http"}
  /\ out' = [out EXCEPT !.hpCalled = TRUE, !.hasParams = hasParams(q.params)]
  /\ UNCHANGED <<cache, preload, aliased, inserted, q, callers>>

LookupNext ==
  \/ Lookup
  \/ CallHasParams

LookupSpec == LookupInit /\ [][LookupNext]_vars

----------------------------------------------------------------------------
(* The race specification: two callers, each checking the cache, sending  *)
(* its request on a miss and inserting the response when it completes     *)

Callers == {1, 2}

\* requests for one logical key: same method and url, fuzzy-equal params
RaceRequests ==
  { Req("GET", "/users", Http(<<>>)),
    Req("GET", "/users", Http(<< <<"foo", <<"">> >> >>)) }

RaceInit ==
  /\ preload \in PreloadArrays
  /\ cache = preload
  /\ aliased = TRUE
  /\ inserted = 0
  /\ q = NoArgs
  /\ out = NotCalled
  /\ callers \in [Callers -> { [pc |-> "start", request |-> r, issued |-> 0, ref |-> 0] :
                                r \in RaceRequests }]

\* the caller looks its request up: a hit is served from the cache, a miss
\* puts the request in flight
Check(c) ==
  /\ callers[c].pc = "start"
  /\ callers' = [callers EXCEPT
                   ![c].pc = IF has(cache, ByRequest(callers[c].request)) THEN "served" ELSE "inflight",
                   ![c].issued = 1 + Cardinality({ d \in Callers : callers[d].issued > 0 })]
  /\ UNCHANGED <<cache, preload, aliased, inserted, q, out>>

\* an event of the request in flight arrives and is handed to insert; the
\* terminal response ends the request
Complete(c, response) ==
  /\ callers[c].pc = "inflight"
  /\ cache' = insert(cache, FreshRef, callers[c].request, response)
  /\ preload' = IF aliased THEN cache' ELSE preload
  /\ inserted' = IF response.type = Response THEN inserted + 1 ELSE inserted
  /\ callers' = IF response.type = Response
                THEN [callers EXCEPT ![c].pc = "done", ![c].ref = FreshRef]
                ELSE callers
  /\ UNCHANGED <<aliased, q, out>>

RaceNext ==
  \/ \E c \in Callers : Check(c)
  \/ \E c \in Callers, response \in Events : Complete(c, response)

RaceSpec == RaceInit /\ [][RaceNext]_vars

----------------------------------------------------------------------------
(* Vocabulary of the properties *)

\* the (method, url, params) a call's arguments denote, in either call shape
DescMethod(a) == IF a.shape = "request" THEN a.request.method ELSE a.method
DescUrl(a)    == IF a.shape = "request" THEN a.request.url ELSE a.url
DescParams(a) == IF a.shape = "request" THEN a.request.params ELSE a.params

\* positions of the store whose item matches the descriptor
Matching(c, a) ==
  { i \in DOMAIN c : /\ c[i].request.method = DescMethod(a)
                     /\ c[i].request.url = DescUrl(a)
                     /\ paramsAreBasicallyEqual(DescParams(a), c[i].request.params) }

Min(S) == CHOOSE x \in S : \A y \in S : x <= y

\* s without its position i
RemoveAt(s, i) == [j \in 1..(Len(s) - 1) |-> IF j < i THEN s[j] ELSE s[j + 1]]

IsSuccessful(response) == response.status >= 200 /\ response.status < 300

\* the item was created by insert (preloaded objects are numbered 1..MaxPreload)
IsInserted(item) == item.ref > MaxPreload

TypeOK == Len(cache) <= MaxPreload + MaxInserts

----------------------------------------------------------------------------
\* C1: for every descriptor with a defined url, find returns the item at the
\* lowest position among the items with the same method, the same url and
\* fuzzy-equal params, and null exactly when there is no such item.
C1_FindReturnsFirstMatch ==
  \A a \in Descriptors :
    DescUrl(a) # Undefined =>
      IF Matching(cache, a) = {}
      THEN find(cache, a) = Null
      ELSE find(cache, a) = cache[Min(Matching(cache, a))]

\* a store where a descriptor has two matches, the first of them behind an
\* item that does not match
C1_Witness ==
  \E a \in Descriptors :
    /\ Cardinality(Matching(cache, a)) >= 2
    /\ Min(Matching(cache, a)) > 1
    /\ find(cache, a) = cache[Min(Matching(cache, a))]

\* C2: in both call shapes, has(descriptor) is true iff find(descriptor)
\* returns an item.
C2_HasIffFind ==
  \A a \in Descriptors : has(cache, a) <=> (find(cache, a) # Null)

\* on a store of preloaded and inserted items, has answers true in both
\* call shapes and false for some descriptor
C2_Witness ==
  /\ \E i, j \in DOMAIN cache : ~IsInserted(cache[i]) /\ IsInserted(cache[j])
  /\ \E a \in Descriptors : a.shape = "request" /\ has(cache, a)
  /\ \E a \in Descriptors : a.shape = "triple" /\ has(cache, a)
  /\ \E a \in Descriptors : ~has(cache, a)

\* C3: find and has never change the store: after a call, hit or miss, it
\* holds the same items in the same order (and the same array object), so a
\* repeated find reads the same store and returns the same result.
C3_LookupLeavesStore ==
  [][\/ /\ cache' = cache
        /\ aliased' = aliased
        /\ preload' = preload
     \/ ~ \E a \in Descriptors : Find(a) \/ Has(a)]_vars

\* a store of preloaded and inserted items on which one lookup hits and
\* another misses
C3_Witness ==
  /\ \E i, j \in DOMAIN cache : ~IsInserted(cache[i]) /\ IsInserted(cache[j])
  /\ \E a \in Descriptors : find(cache, a) # Null
  /\ \E a \in Descriptors : DescUrl(a) # Undefined /\ find(cache, a) = Null

\* C4: insert with a non-terminal event leaves the store unchanged; insert
\* with a terminal response appends exactly one item, holding that request
\* and that response, at the end.
C4_InsertGating ==
  [][\A request \in InsertRequests, response \in Events :
       Insert(request, response) =>
         IF response.type # Response
         THEN cache' = cache
         ELSE /\ Len(cache') = Len(cache) + 1
              /\ SubSeq(cache', 1, Len(cache)) = cache
              /\ cache'[Len(cache')].request = request
              /\ cache'[Len(cache')].response = response]_vars

\* a store whose last item was appended by insert behind an older item
C4_Witness ==
  /\ Len(cache) >= 2
  /\ IsInserted(cache[Len(cache)])
  /\ inserted >= 1

\* C5: every item insert adds comes from a successful response.
C5_OnlySuccessfulStored ==
  \A i \in DOMAIN cache : IsInserted(cache[i]) => IsSuccessful(cache[i].response)

\* C6: an accepted insert for a request the store already matches adds a
\* second, distinct item, and find for that request still returns the
\* older one.
C6_InsertKeepsDuplicates ==
  [][\A request \in InsertRequests, response \in Events :
       (/\ Insert(request, response)
        /\ response.type = Response
        /\ find(cache, ByRequest(request)) # Null) =>
         /\ Len(cache') = Len(cache) + 1
         /\ \A i \in DOMAIN cache : cache[i].ref # cache'[Len(cache')].ref
         /\ find(cache', ByRequest(request)) = find(cache, ByRequest(request))
         /\ find(cache', ByRequest(request)) # cache'[Len(cache')]]_vars

\* two inserted items for the same request, find returning the older one
C6_Witness ==
  \E i, j \in DOMAIN cache :
    /\ i < j
    /\ IsInserted(cache[i]) /\ IsInserted(cache[j])
    /\ cache[i].request = cache[j].request
    /\ find(cache, ByRequest(cache[j].request)) = cache[i]

\* C7: bust(descriptor) with a match removes exactly one item, the first
\* match; every other item stays.
C7_BustRemovesExactlyOne ==
  [][\A a \in Descriptors :
       (Bust(a) /\ find(cache, a) # Null) =>
         /\ Len(cache') = Len(cache) - 1
         /\ cache' = RemoveAt(cache, Min(Matching(cache, a)))]_vars

\* C8: bust(descriptor) without a match is a no-op, in both call shapes.
C8_BustMissIsNoOp ==
  [][\/ /\ cache' = cache
        /\ aliased' = aliased
        /\ preload' = preload
     \/ ~ \E a \in Descriptors : find(cache, a) = Null /\ Bust(a)]_vars

\* a store of preloaded and inserted items, still the preload array, that
\* some descriptor of each call shape misses
C8_Witness ==
  /\ aliased
  /\ \E i, j \in DOMAIN cache : ~IsInserted(cache[i]) /\ IsInserted(cache[j])
  /\ \E a \in Descriptors : a.shape = "request" /\ find(cache, a) = Null
  /\ \E a \in Descriptors : a.shape = "triple" /\ DescUrl(a) # Undefined /\ find(cache, a) = Null
  /\ \E a \in Descriptors : a.shape = "triple" /\ DescUrl(a) = Undefined /\ find(cache, a) = Null

\* C9: bust() empties the store whatever it held; find and has then report
\* not-found on every descriptor, and the store stays empty until an
\* accepted insert.
C9_BustAllEmpties ==
  [][/\ Bust(NoArgs) =>
          /\ cache' = <<>>
          /\ \A a \in Descriptors : find(cache', a) = Null /\ ~has(cache', a)
     /\ (cache = <<>> /\ cache' # <<>>) =>
          \E request \in InsertRequests, response \in Events :
            response.type = Response /\ Insert(request, response)]_vars

\* the store is empty and no longer the preload array, which held preloaded
\* and inserted items, two of them matching one descriptor
C9_Witness ==
  /\ cache = <<>>
  /\ ~aliased
  /\ \E i, j \in DOMAIN preload : ~IsInserted(preload[i]) /\ IsInserted(preload[j])
  /\ \E a \in Descriptors : Cardinality(Matching(preload, a)) >= 2

\* the descriptor has no params: none passed, or an empty set
HasNoParams(p) == p.pairs = <<>>

\* the value of foo in the parameter set is "", null, undefined or {}
FooIsEmpty(p) ==
  p \in { Raw(Foo("")), Raw(Foo(NullV)), Raw(Foo(UndefV)), Raw(Foo(EmptyObjV)), Http(Foo("")) }

FooIsBar(p) == p \in { Raw(Foo("bar")), Http(Foo("bar")) }

SameMethodAndUrl(a, item) ==
  DescMethod(a) = item.request.method /\ DescUrl(a) = item.request.url

\* C10: with equal method and url, a lookup without params hits an item
\* stored with an empty foo ("", null, undefined, {}), a lookup with an empty
\* foo hits an item stored without params, and a lookup with foo = "bar"
\* hits neither an item with an empty foo nor one without foo.
C10_AbsenceEquivalence ==
  (out.called /\ SameMethodAndUrl(q, cache[1])) =>
    LET qp == DescParams(q)
        sp == cache[1].request.params
    IN  /\ (HasNoParams(qp) /\ FooIsEmpty(sp)) => (out.item = cache[1] /\ out.has)
        /\ (FooIsEmpty(qp) /\ HasNoParams(sp)) => (out.item = cache[1] /\ out.has)
        /\ (FooIsBar(qp) /\ (FooIsEmpty(sp) \/ "foo" \notin Names(sp.pairs))) =>
             (out.item = Null /\ ~out.has)

\* find without params has hit an item stored with foo: null
C10_Witness ==
  /\ out.called
  /\ DescParams(q) = NoParams
  /\ cache[1].request.params = Raw(Foo(NullV))
  /\ out.item = cache[1]

\* the (name, values) pairs a parameter set holds, whatever their order
PairSet(p) == { p.pairs[i] : i \in DOMAIN p.pairs }

\* C11: two parameter sets that hold the same (name, value) pairs in
\* different orders are fuzzy-equal, so find with one ordering hits the item
\* stored with the other.
C11_OrderIrrelevant ==
  LET qp == DescParams(q)
      sp == cache[1].request.params
  IN  (/\ out.called
       /\ SameMethodAndUrl(q, cache[1])
       /\ PairSet(qp) = PairSet(sp)
       /\ qp.pairs # sp.pairs) =>
        /\ paramsAreBasicallyEqual(qp, sp)
        /\ out.item = cache[1]

\* find with {a: "1", b: "2"} has hit the item stored with b = 2, a = 1
C11_Witness ==
  /\ out.called
  /\ DescParams(q) = Raw(<< <<"a", <<"1">> >>, <<"b", <<"2">> >> >>)
  /\ cache[1].request.params = Http(<< <<"b", <<"2">> >>, <<"a", <<"1">> >> >>)
  /\ out.item = cache[1]

\* calls with a string method and an undefined url
UndefinedUrlCalls ==
  { ByTriple(m, Undefined, p) : m \in {"GET", "get"}, p \in LookupParams }

\* C12: with an undefined url, on every store, find returns null, has
\* returns false and bust leaves the store (and its array object) as it is.
C12_UndefinedUrlIsNotFound ==
  \A a \in UndefinedUrlCalls :
    /\ find(cache, a) = Null
    /\ has(cache, a) = FALSE
    /\ bust(cache, a) = cache
    /\ ~bustReassigns(cache, a)

\* a store of preloaded and inserted items, one of which has the method and
\* params of a call whose url is undefined
C12_Witness ==
  /\ \E i, j \in DOMAIN cache : ~IsInserted(cache[i]) /\ IsInserted(cache[j])
  /\ \E a \in UndefinedUrlCalls, i \in DOMAIN cache :
       /\ cache[i].request.method = a.method
       /\ paramsAreBasicallyEqual(a.params, cache[i].request.params)
       /\ find(cache, a) = Null

\* C13: two callers with fuzzy-equal requests. Once both have checked and
\* neither has inserted, both are in flight exactly when the store holds no
\* match (both checks missed). When both have completed, the store ends
\* with their two items, the first inserted before the second, and find for
\* either request returns the item inserted first, whoever checked first.
C13_RaceLeavesDuplicates ==
  /\ (\A c \in Callers : callers[c].pc \in {"inflight", "served"}) =>
       \A c \in Callers :
         callers[c].pc = "inflight" <=> Matching(cache, ByRequest(callers[c].request)) = {}
  /\ (\A c \in Callers : callers[c].pc = "done") =>
       /\ Len(cache) >= 2
       /\ LET n == Len(cache)
              first == CHOOSE c \in Callers : \A d \in Callers : callers[c].ref <= callers[d].ref
          IN  /\ cache[n - 1].ref = callers[first].ref
              /\ cache[n - 1].request = callers[first].request
              /\ \E d \in Callers \ {first} :
                   cache[n].ref = callers[d].ref /\ cache[n].request = callers[d].request
              /\ cache[n].ref # cache[n - 1].ref
              /\ n - 2 = Cardinality({ i \in DOMAIN cache : ~IsInserted(cache[i]) })
              /\ \A c \in Callers : find(cache, ByRequest(callers[c].request)) = cache[n - 1]

\* both callers have inserted; the one that checked second inserted first
\* and find returns its item
C13_Witness ==
  /\ \A c \in Callers : callers[c].pc = "done"
  /\ \E c, d \in Callers :
       /\ callers[c].issued > callers[d].issued
       /\ callers[c].ref < callers[d].ref
       /\ callers[c].request # callers[d].request
       /\ find(cache, ByRequest(callers[d].request)).ref = callers[c].ref

\* the item answers a lookup with the descriptor
Answers(item, a) == ItemMatches(item, DescMethod(a), DescUrl(a), DescParams(a))

\* C14: has(d) turns from true to false only in a step that is bust() or a
\* bust(descriptor) whose first match answers d, and from false to true
\* only in an accepted insert of a request that answers d; no other step
\* changes has(d). (A step that leaves the store as it is changes no has(d).)
C14_HasChangesOnlyByInsertAndBust ==
  [][\/ cache' = cache
     \/ \A d \in Descriptors :
          IF has(cache, d)
          THEN \/ has(cache', d)
               \/ Bust(NoArgs)
               \/ \E a \in Descriptors :
                    /\ Bust(a)
                    /\ find(cache, a) # Null
                    /\ Answers(find(cache, a), d)
          ELSE \/ ~has(cache', d)
               \/ \E request \in InsertRequests, response \in Events :
                    /\ response.type = Response
                    /\ Insert(request, response)
                    /\ Answers(createHttpCacheItem(FreshRef, request, response), d)]_vars

\* a store emptied of its matches for a descriptor by busts after an insert
\* had added one: has was false, true and false again
C14_Witness ==
  /\ inserted >= 1
  /\ ~aliased
  /\ cache # <<>>
  /\ \E d \in Descriptors :
       /\ ~has(cache, d)
       /\ \E i \in DOMAIN preload : IsInserted(preload[i]) /\ Answers(preload[i], d)

C16_PreloadUntouched ==
  [][preload' = preload]_vars

\* C17: hasParams(params) is true iff params are defined and have at least
\* one key.
C17_HasParamsMeansDefinedWithKeys ==
  out.hpCalled =>
    (out.hasParams <=> (q.params.kind # "undefined" /\ Len(q.params.pairs) > 0))

\* the params differ at most in the second and later values of their keys
SameFirstValues(p1, p2) ==
  /\ Len(p1.pairs) = Len(p2.pairs)
  /\ \A i \in DOMAIN p1.pairs :
       /\ p1.pairs[i][1] = p2.pairs[i][1]
       /\ p1.pairs[i][2][1] = p2.pairs[i][2][1]

\* C18: the normalizer turns an HttpParams container into one pair per key
\* holding the first value of the key, and returns raw params and undefined
\* as they are; so a lookup whose container differs from the stored one only
\* in the second or later value of a repeated key hits.
C18_NormalizerKeepsFirstValue ==
  LET qp == DescParams(q)
      sp == cache[1].request.params
      lq == convertHttpParamsToLooseValue(qp)
  IN  /\ IF qp.kind = "http"
         THEN /\ Len(lq.pairs) = Len(qp.pairs)
              /\ \A i \in DOMAIN qp.pairs :
                   lq.pairs[i] = <<qp.pairs[i][1], <<qp.pairs[i][2][1]>> >>
         ELSE lq = qp
      /\ (/\ out.called
          /\ SameMethodAndUrl(q, cache[1])
          /\ qp.kind = "http" /\ sp.kind = "http"
          /\ SameFirstValues(qp, sp)) =>
           (out.item = cache[1] /\ out.has)

\* find with foo = bar, baz has hit the item stored with foo = bar, qux
C18_Witness ==
  /\ out.called
  /\ DescParams(q) = Http(<< <<"foo", <<"bar", "baz">> >> >>)
  /\ cache[1].request.params = Http(<< <<"foo", <<"bar", "qux">> >> >>)
  /\ out.item = cache[1]

\* C19: in every step the new store is the old store unchanged, or the old
\* store with one entry appended at the end, or the old store with exactly
\* one entry removed, or empty; the entries that stay keep their order, their
\* request and their response.
C19_StoreChangesByOneEntry ==
  [][\/ cache' = cache
     \/ cache' = <<>>
     \/ /\ Len(cache') = Len(cache) + 1
        /\ SubSeq(cache', 1, Len(cache)) = cache
     \/ \E i \in DOMAIN cache : cache' = RemoveAt(cache, i)]_vars

\* the entry and the triple descriptor of a descriptor's request
EntryFor(a) ==
  createHttpCacheItem(1, Req(DescMethod(a), DescUrl(a), DescParams(a)), Ok200)
DescriptorOf(item) ==
  ByTriple(item.request.method, item.request.url, item.request.params)
\* find(a) hits a store holding only an entry for b
Hits(a, b) == find(<<EntryFor(b)>>, a) # Null

\* C20: matching is symmetric and transitive: find(q) hits the store holding
\* only the entry of b iff find(b) hits a store holding only an entry for q,
\* and if q matches b and b matches c then q matches c.
C20_MatchingIsSymmetricAndTransitive ==
  out.called =>
    LET b == DescriptorOf(cache[1])
    IN  /\ (out.item # Null) <=> Hits(b, q)
        /\ \A c \in LookupQueries :
             (out.item # Null /\ Hits(b, c)) => Hits(q, c)

\* find without params has hit the item stored with foo = null, which in turn
\* matches a third descriptor with foo = ""
C20_Witness ==
  /\ out.called
  /\ DescParams(q) = NoParams
  /\ cache[1].request.params = Raw(Foo(NullV))
  /\ out.item = cache[1]
  /\ Hits(DescriptorOf(cache[1]), q)
  /\ Hits(DescriptorOf(cache[1]), ByTriple("GET", "/users", Http(Foo(""))))
  /\ Hits(q, ByTriple("GET", "/users", Http(Foo(""))))

====
